---- MODULE Spec2Model ----
(***************************************************************************)
(* Gazebo side of the ArduPilot SITL plugin                                *)
(* (src/ardupilot_sitl_gazebo_plugin/src/apm_plugin_gazebo_side.cpp).      *)
(*                                                                         *)
(* Four execution contexts run concurrently:                               *)
(*   "driver"    the plugin's main loop thread: init_gazebo_side once,     *)
(*               then step_gazebo_sim() repeatedly;                        *)
(*   "world"     the simulator's update thread: one physics iteration when *)
(*               the world is not paused or a step is requested, followed  *)
(*               by the WorldUpdateEnd callback on_gazebo_update();        *)
(*   "control"   delivery of ~/world_control messages to on_gazebo_control;*)
(*   "modelInfo" delivery of ~/model/info messages to on_gazebo_modelInfo, *)
(*               which runs on_rover_model_loaded() statement by statement.*)
(* A handler's effect is applied when it is entered; the memory accesses   *)
(* it makes stay recorded in acc until its return action, so that two      *)
(* handlers that overlap in time are visible as overlapping accesses.      *)
(* Doubles are fixed-point integers: times in nanoseconds, every other     *)
(* quantity in tenths (0.6 is 6, 2000 is 20000).                           *)
(***************************************************************************)
EXTENDS Integers, Sequences, FiniteSets, TLC

\* ---------------------------------------------------------------- bounds
MaxSteps == 2       \* calls of step_gazebo_sim() made by the driver
MaxFreeTicks == 1   \* iterations a free-running world makes before it is paused
MaxControl == 2     \* world-control messages that carry a pause field

\* ------------------------------------------------------------- constants
NsPerSec == 1000000000
\* STEP_SIZE_FOR_ARDUPILOT, 2.5 ms, in nanoseconds
STEP_SIZE_FOR_ARDUPILOT == 2500000
\* the step size of the world before the physics message is processed
WorldDefaultStepNs == 1000000

Null == "null"
NoError == "no error"

\* the joints of a complete rover model
JointNames ==
    {"front_left_wheel_joint", "front_right_wheel_joint",
     "rear_left_wheel_joint", "rear_right_wheel_joint",
     "front_left_steering_joint", "front_right_steering_joint"}

\* the joint lookups of on_rover_model_loaded, in program order: the member
\* that receives the handle, the name looked up, the text thrown when absent
JointLookups ==
    << [field |-> "flWheelJoint", name |-> "front_left_wheel_joint",
        msg |-> "could not find front left wheel joint"],
       [field |-> "frWheelJoint", name |-> "front_right_wheel_joint",
        msg |-> "could not find front right wheel joint"],
       [field |-> "blWheelJoint", name |-> "rear_left_wheel_joint",
        msg |-> "could not find back left wheel joint"],
       [field |-> "brWheelJoint", name |-> "rear_right_wheel_joint",
        msg |-> "could not find back right wheel joint"],
       [field |-> "frWheelSteeringJoint", name |-> "front_left_steering_joint",
        msg |-> "could not find front right steering joint"],
       [field |-> "flWheelSteeringJoint", name |-> "front_right_steering_joint",
        msg |-> "could not find front left steering joint"] >>

JointFields == {JointLookups[i].field : i \in 1..Len(JointLookups)}
WheelFields == {"flWheelJoint", "frWheelJoint", "blWheelJoint", "brWheelJoint"}

\* the wheel radius member derived from each wheel joint member
RadiusField ==
    [f \in WheelFields |->
        CASE f = "flWheelJoint" -> "flWheelRadius"
          [] f = "frWheelJoint" -> "frWheelRadius"
          [] f = "blWheelJoint" -> "blWheelRadius"
          [] f = "brWheelJoint" -> "brWheelRadius"]

\* the configuration fields read by on_rover_model_loaded: the member set,
\* the element name, the default used when the element is absent
ParamTable ==
    << [field |-> "frontTorque", name |-> "front_torque", dflt |-> 0],
       [field |-> "backTorque", name |-> "back_torque", dflt |-> 20000],
       [field |-> "maxSpeed", name |-> "max_speed", dflt |-> 100],
       [field |-> "maxSteer", name |-> "max_steer", dflt |-> 6],
       [field |-> "aeroLoad", name |-> "aero_load", dflt |-> 1] >>

ParamFields == {ParamTable[i].field : i \in 1..Len(ParamTable)}

\* ---------------------------------------------------------------- inputs
\* gazebo::common::Time values the world clock may show when the plugin loads
InitSimTimes == {[sec |-> 0, nsec |-> NsPerSec - STEP_SIZE_FOR_ARDUPILOT]}

\* stop bounds and stop coefficients of a joint as loaded from the model file
InitJoint == [high |-> 10, low |-> -10, erp |-> 2, cfm |-> 0]

WheelJointNames ==
    {"front_left_wheel_joint", "front_right_wheel_joint",
     "rear_left_wheel_joint", "rear_right_wheel_joint"}

\* collision 0 of a wheel link: <<>> is a null CollisionPtr, <<s>> a collision
\* whose GetShape() is s; s is <<>> (null) or <<[type, radius]>>
CylinderWheel == <<  <<[type |-> "CYLINDER_SHAPE", radius |-> 3]>>  >>

\* the model the world holds under the name "rover": a complete one, and one
\* for each required joint that lacks exactly that joint
RoverModels ==
    {[joints |-> JointNames \ miss, collision0 |-> [j \in WheelJointNames |-> CylinderWheel]] :
        miss \in {{}} \cup {{j} : j \in JointNames}}

\* the plugin's <plugin> element: an absent element is <<>>, a present one <<v>>
Configs ==
    {[UAV_MODEL |-> u, NB_SERVOS_MOTOR_SPEED |-> n,
      front_torque |-> p, back_torque |-> <<>>, max_speed |-> <<>>,
      max_steer |-> p, aero_load |-> <<>>] :
        u \in {<<>>, <<"drone1">>}, n \in {<<4>>}, p \in {<<>>, <<7>>}}

\* the collisions a wheel link may carry at index 0: no collision, a collision
\* without a shape, a cylinder, a sphere, a box
CollisionKinds ==
    << <<>>,
       << <<>> >>,
       << <<[type |-> "CYLINDER_SHAPE", radius |-> 3]>> >>,
       << <<[type |-> "SPHERE_SHAPE", radius |-> 2]>> >>,
       << <<[type |-> "BOX_SHAPE", size |-> 5]>> >> >>

\* complete rover models whose four wheels carry four different collisions:
\* model k gives the wheel of the i-th lookup the kind i+k, cyclically
ShapedRoverModels ==
    {[joints |-> JointNames,
      collision0 |-> [j \in WheelJointNames |->
          CollisionKinds[(((CHOOSE i \in 1..4 : JointLookups[i].name = j) + k)
                            % Len(CollisionKinds)) + 1]]] :
        k \in 0..(Len(CollisionKinds) - 1)}

CompleteRover == [joints |-> JointNames, collision0 |-> [j \in WheelJointNames |-> CylinderWheel]]

\* a <plugin> element without any of the elements the plugin reads
EmptyConfig ==
    [UAV_MODEL |-> <<>>, NB_SERVOS_MOTOR_SPEED |-> <<>>,
     front_torque |-> <<>>, back_torque |-> <<>>, max_speed |-> <<>>,
     max_steer |-> <<>>, aero_load |-> <<>>]

\* every subset of the five vehicle parameters present, with values that
\* differ from the defaults and from each other
ParamConfigs ==
    {[EmptyConfig EXCEPT !.front_torque = ft, !.back_torque = bt, !.max_speed = ms,
                         !.max_steer = st, !.aero_load = al] :
        ft \in {<<>>, <<7>>}, bt \in {<<>>, <<15>>}, ms \in {<<>>, <<30>>},
        st \in {<<>>, <<4>>}, al \in {<<>>, <<2>>}}

\* UAV_MODEL and NB_SERVOS_MOTOR_SPEED each present or absent
NameConfigs ==
    {[EmptyConfig EXCEPT !.UAV_MODEL = u, !.NB_SERVOS_MOTOR_SPEED = n] :
        u \in {<<>>, <<"drone1">>}, n \in {<<>>, <<6>>}}

\* the <<plugin element, rover model>> pairs of the configuration study
CfgScenarios ==
    ((ParamConfigs \cup NameConfigs) \X {CompleteRover})
        \cup ({EmptyConfig} \X ShapedRoverModels)

\* names of the models announced on ~/model/info
ModelNames == {"rover", "drone1"}

\* a ~/world_control message: has_pause() and, when set, pause()
ControlMsgs ==
    {[has_pause |-> FALSE, pause |-> FALSE],
     [has_pause |-> TRUE, pause |-> TRUE],
     [has_pause |-> TRUE, pause |-> FALSE]}

Contexts == {"driver", "world", "control", "modelInfo"}

\* ----------------------------------------------------------------- state
VARIABLES
    \* the world
    worldPaused,        \* World::IsPaused()
    stepInc,            \* iterations requested by World::Step and not yet made
    worldIterations,    \* physics iterations made so far
    simTime,            \* World::GetSimTime(): [sec, nsec]
    worldMaxStepSize,   \* PhysicsEngine::GetMaxStepSize(), nanoseconds
    physicsMsgs,        \* messages published on ~/physics
    physicsSeen,        \* how many of them the world has processed
    worldModel,         \* the model named "rover" in the world
    jointState,         \* stops and stop coefficients of its joints
    \* the plugin's members
    sdf, modelName, nbMotorSpeed,
    isSimPaused, timeMsgAlreadyDisplayed, fdmTimestamp,
    subs,               \* _controlSub, _modelInfoSub, _updateConnection
    veh,                \* _rover_model, joint handles, parameters, radii
    \* control state of the contexts
    pcDriver, pcWorld, pcControl, pcModel,
    lookup,             \* index in JointLookups of the lookup in progress
    acc,                \* per context: member accesses of the handler in progress
    fatalDiag,          \* text of the exception thrown, NoError if none
    terminated,         \* the process has been terminated by the exception
    \* observations
    stepSizeLog,        \* number of "Simulation step size" diagnostics logged
    stepCalls,          \* calls of step_gazebo_sim() made
    updateCalls,        \* calls of on_gazebo_update() made
    pauseEvents,        \* control messages handled that carried a pause field
    isSimPaused0,       \* isSimPaused as the constructor left it
    itersAtCall,        \* worldIterations when the last step_gazebo_sim began
    tsAtCall,           \* fdmTimestamp when the last step_gazebo_sim began
    infoName,           \* name carried by the ~/model/info message being handled
    itersAtInit,        \* worldIterations when init_gazebo_side paused the world
    pausedAtCall,       \* isSimPaused when the step_gazebo_sim in progress began
    lastControl,        \* the ~/world_control message being handled, <<>> if none
    sdfArg,             \* the sdf::ElementPtr handed to init_gazebo_side
    initReturned,       \* what init_gazebo_side returned, "none" before it returns
    resolved1           \* <<>>, or <<the vehicle and joint state the first
                        \* completed run of on_rover_model_loaded left>>

worldVars == <<worldPaused, stepInc, worldIterations, simTime, worldMaxStepSize,
               physicsMsgs, physicsSeen, worldModel, jointState>>
memberVars == <<sdf, modelName, nbMotorSpeed, isSimPaused, timeMsgAlreadyDisplayed,
                fdmTimestamp, subs, veh>>
ctlVars == <<pcDriver, pcWorld, pcControl, pcModel, lookup, acc, fatalDiag, terminated>>
obsVars == <<stepSizeLog, stepCalls, updateCalls, pauseEvents, isSimPaused0,
             itersAtCall, tsAtCall, infoName, itersAtInit,
             pausedAtCall, lastControl>>
auxVars == <<sdfArg, initReturned, resolved1>>
vars == <<worldVars, memberVars, ctlVars, obsVars, auxVars>>

\* ----------------------------------------------------- sdf::Element access
HasElement(cfg, name) == cfg[name] # <<>>
Get(cfg, name) == cfg[name][1]

\* ------------------------------------------------------- construction
\* members as the constructor leaves them
CtorModelName == "rover"
CtorNbMotorSpeed == 4
CtorTimeMsgAlreadyDisplayed == FALSE
CtorTimestamp == 0
CtorDouble == 0

\* the rover members before the first resolution: null handles, zero doubles
CtorVehicle ==
    [f \in JointFields \cup {"rover_model", "node"} |-> Null] @@
    [f \in ParamFields \cup {RadiusField[w] : w \in WheelFields}
           \cup {"wheelRadius", "steeredWheelForce", "tireAngleRange"} |-> CtorDouble]

\* the state after construction, for a set of scenarios <<sdf element, rover
\* model>> and a set of values the constructor may give _isSimPaused
InitWith(scenarios, pausedValues) ==
    /\ worldPaused \in BOOLEAN
    /\ stepInc = 0
    /\ worldIterations = 0
    /\ simTime \in InitSimTimes
    /\ worldMaxStepSize = WorldDefaultStepNs
    /\ physicsMsgs = <<>>
    /\ physicsSeen = 0
    /\ \E sc \in scenarios : sdfArg = sc[1] /\ worldModel = sc[2]
    /\ jointState = [j \in worldModel.joints |-> InitJoint]
    /\ sdf = <<>>
    /\ modelName = CtorModelName
    /\ nbMotorSpeed = CtorNbMotorSpeed
    /\ isSimPaused \in pausedValues
    /\ timeMsgAlreadyDisplayed = CtorTimeMsgAlreadyDisplayed
    /\ fdmTimestamp = CtorTimestamp
    /\ subs = [control |-> FALSE, modelInfo |-> FALSE, update |-> FALSE]
    /\ veh = CtorVehicle
    /\ pcDriver = "init_config"
    /\ pcWorld = "loop"
    /\ pcControl = "idle"
    /\ pcModel = "idle"
    /\ lookup = 0
    /\ acc = [c \in Contexts |-> {}]
    /\ fatalDiag = NoError
    /\ terminated = FALSE
    /\ stepSizeLog = 0
    /\ stepCalls = 0
    /\ updateCalls = 0
    /\ pauseEvents = 0
    /\ isSimPaused0 = isSimPaused
    /\ itersAtCall = 0
    /\ tsAtCall = 0
    /\ infoName = ""
    /\ itersAtInit = 0
    /\ pausedAtCall = FALSE
    /\ lastControl = <<>>
    /\ initReturned = "none"
    /\ resolved1 = <<>>

Init == InitWith(Configs \X RoverModels, BOOLEAN)

\* the configuration study: every configuration and wheel geometry, with the
\* pause flag as the constructor leaves it
InitCfg == InitWith(CfgScenarios, {FALSE})

\* ------------------------------------------------------------ helpers
Touch(ctx, set) == acc' = [acc EXCEPT ![ctx] = set]

\* gazebo::common::Time + nanoseconds, normalised to 0 <= nsec < 1e9
TimeAdd(t, ns) ==
    [sec |-> t.sec + (t.nsec + ns) \div NsPerSec,
     nsec |-> (t.nsec + ns) % NsPerSec]

\* a conversion that scales the nanoseconds by 1e-6
ToSeconds_micro(t) == t.sec * NsPerSec + t.nsec * 1000

\* gz_time_now.sec + gz_time_now.nsec * 1e-9, in nanoseconds
ToSeconds(t) == t.sec * NsPerSec + t.nsec

\* std::string::compare: zero exactly when the strings are equal
compare(a, b) == IF a = b THEN 0 ELSE 1

\* Model::GetJoint: the joint of that name, or a null JointPtr
GetJoint(model, name) == IF name \in model.joints THEN name ELSE Null

\* ------------------------------------------------------ init_gazebo_side
init_gazebo_side_config ==
    /\ ~terminated /\ pcDriver = "init_config"
    /\ \E cfg \in {sdfArg} :
        /\ sdf' = cfg
        /\ modelName' = IF HasElement(cfg, "UAV_MODEL")
                           THEN Get(cfg, "UAV_MODEL") ELSE modelName
        /\ nbMotorSpeed' = IF HasElement(cfg, "NB_SERVOS_MOTOR_SPEED")
                              THEN Get(cfg, "NB_SERVOS_MOTOR_SPEED") ELSE nbMotorSpeed
    /\ pcDriver' = "init_pause"
    /\ UNCHANGED <<worldVars, isSimPaused, timeMsgAlreadyDisplayed, fdmTimestamp,
                   subs, veh, pcWorld, pcControl, pcModel, lookup, acc, fatalDiag,
                   terminated, obsVars,
                   auxVars>>

\* an initialisation that leaves the world as it found it
init_gazebo_side_nopause ==
    /\ ~terminated /\ pcDriver = "init_pause"
    /\ pcDriver' = "init_publish"
    /\ itersAtInit' = worldIterations
    /\ UNCHANGED <<worldPaused, stepInc, worldIterations, simTime, worldMaxStepSize,
                   physicsMsgs, physicsSeen, worldModel, jointState, memberVars,
                   pcWorld, pcControl, pcModel, lookup, acc, fatalDiag, terminated,
                   stepSizeLog, stepCalls, updateCalls, pauseEvents, isSimPaused0,
                   itersAtCall, tsAtCall, infoName, pausedAtCall, lastControl,
                   auxVars>>

init_gazebo_side_pause ==
    /\ ~terminated /\ pcDriver = "init_pause"
    /\ worldPaused' = TRUE
    /\ pcDriver' = "init_publish"
    /\ itersAtInit' = worldIterations
    /\ UNCHANGED <<stepInc, worldIterations, simTime, worldMaxStepSize, physicsMsgs,
                   physicsSeen, worldModel, jointState, memberVars, pcWorld,
                   pcControl, pcModel, lookup, acc, fatalDiag, terminated,
                   stepSizeLog, stepCalls, updateCalls, pauseEvents, isSimPaused0,
                   itersAtCall, tsAtCall, infoName, pausedAtCall, lastControl,
                   auxVars>>

init_gazebo_side_publish ==
    /\ ~terminated /\ pcDriver = "init_publish"
    /\ physicsMsgs' = Append(physicsMsgs,
                             [type |-> "ODE", max_step_size |-> STEP_SIZE_FOR_ARDUPILOT])
    /\ pcDriver' = "init_subscribe"
    /\ UNCHANGED <<worldPaused, stepInc, worldIterations, simTime, worldMaxStepSize,
                   physicsSeen, worldModel, jointState, memberVars, pcWorld,
                   pcControl, pcModel, lookup, acc, fatalDiag, terminated, obsVars,
                   auxVars>>

init_gazebo_side_subscribe ==
    /\ ~terminated /\ pcDriver = "init_subscribe"
    /\ subs' = [subs EXCEPT !.control = TRUE, !.modelInfo = TRUE]
    /\ pcDriver' = "init_connect"
    /\ UNCHANGED <<worldVars, sdf, modelName, nbMotorSpeed, isSimPaused,
                   timeMsgAlreadyDisplayed, fdmTimestamp, veh, pcWorld, pcControl,
                   pcModel, lookup, acc, fatalDiag, terminated, obsVars,
                   auxVars>>

init_gazebo_side_connect ==
    /\ ~terminated /\ pcDriver = "init_connect"
    /\ subs' = [subs EXCEPT !.update = TRUE]
    /\ pcDriver' = "idle"
    /\ initReturned' = "true"
    /\ UNCHANGED <<worldVars, sdf, modelName, nbMotorSpeed, isSimPaused,
                   timeMsgAlreadyDisplayed, fdmTimestamp, veh, pcWorld, pcControl,
                   pcModel, lookup, acc, fatalDiag, terminated, obsVars,
                   sdfArg, resolved1>>

\* ------------------------------------------------------- step_gazebo_sim
\* a driver that skips the step while the pause flag is set
step_gazebo_sim_gated ==
    /\ ~terminated /\ pcDriver = "idle" /\ pcWorld = "loop"
    /\ stepCalls < MaxSteps
    /\ worldPaused' = IF isSimPaused THEN worldPaused ELSE TRUE
    /\ stepInc' = IF isSimPaused THEN stepInc ELSE 1
    /\ pcDriver' = "step"
    /\ Touch("driver", {<<"parent_world", "r">>, <<"isSimPaused", "r">>})
    /\ stepCalls' = stepCalls + 1
    /\ itersAtCall' = worldIterations
    /\ tsAtCall' = fdmTimestamp
    /\ pausedAtCall' = isSimPaused
    /\ UNCHANGED <<worldIterations, simTime, worldMaxStepSize, physicsMsgs,
                   physicsSeen, worldModel, jointState, memberVars, pcWorld,
                   pcControl, pcModel, lookup, fatalDiag, terminated, stepSizeLog,
                   updateCalls, pauseEvents, isSimPaused0, infoName, itersAtInit,
                   lastControl,
                   auxVars>>

\* a driver that stamps the flight-dynamics record itself when it steps
step_gazebo_sim_stamp ==
    /\ ~terminated /\ pcDriver = "idle" /\ pcWorld = "loop"
    /\ stepCalls < MaxSteps
    /\ worldPaused' = TRUE
    /\ stepInc' = 1
    /\ fdmTimestamp' = ToSeconds(simTime)
    /\ pcDriver' = "step"
    /\ Touch("driver", {<<"parent_world", "r">>})
    /\ stepCalls' = stepCalls + 1
    /\ itersAtCall' = worldIterations
    /\ tsAtCall' = fdmTimestamp
    /\ pausedAtCall' = isSimPaused
    /\ UNCHANGED <<worldIterations, simTime, worldMaxStepSize, physicsMsgs,
                   physicsSeen, worldModel, jointState, sdf, modelName,
                   nbMotorSpeed, isSimPaused, timeMsgAlreadyDisplayed, subs, veh,
                   pcWorld, pcControl, pcModel, lookup, fatalDiag, terminated,
                   stepSizeLog, updateCalls, pauseEvents, isSimPaused0, infoName,
                   itersAtInit, lastControl, auxVars>>

\* _parent_world->Step(1): World::Step pauses a running world, requests one
\* iteration under the world update mutex (so not while an iteration is
\* being made) and blocks until the world has made it
step_gazebo_sim ==
    /\ ~terminated /\ pcDriver = "idle" /\ pcWorld = "loop"
    /\ stepCalls < MaxSteps
    /\ worldPaused' = TRUE
    /\ stepInc' = 1
    /\ pcDriver' = "step"
    /\ Touch("driver", {<<"parent_world", "r">>})
    /\ stepCalls' = stepCalls + 1
    /\ itersAtCall' = worldIterations
    /\ tsAtCall' = fdmTimestamp
    /\ pausedAtCall' = isSimPaused
    /\ UNCHANGED <<worldIterations, simTime, worldMaxStepSize, physicsMsgs,
                   physicsSeen, worldModel, jointState, memberVars, pcWorld,
                   pcControl, pcModel, lookup, fatalDiag, terminated, stepSizeLog,
                   updateCalls, pauseEvents, isSimPaused0, infoName, itersAtInit,
                   lastControl,
                   auxVars>>

step_gazebo_sim_return ==
    /\ ~terminated /\ pcDriver = "step"
    /\ stepInc = 0
    /\ pcDriver' = "idle"
    /\ Touch("driver", {})
    /\ pausedAtCall' = FALSE
    /\ UNCHANGED <<worldVars, memberVars, pcWorld, pcControl, pcModel, lookup,
                   fatalDiag, terminated, stepSizeLog, stepCalls, updateCalls,
                   pauseEvents, isSimPaused0, itersAtCall, tsAtCall, infoName,
                   itersAtInit, lastControl,
                   auxVars>>

\* ------------------------------------------------------ the world thread
\* one physics iteration: made when the world runs freely or a step is
\* requested; pending ~/physics messages are processed first
WorldUpdate ==
    /\ ~terminated /\ pcWorld = "loop"
    /\ \/ stepInc > 0
       \/ ~worldPaused /\ worldIterations < stepCalls + MaxFreeTicks
    /\ LET dt == IF physicsSeen < Len(physicsMsgs)
                    THEN physicsMsgs[Len(physicsMsgs)].max_step_size
                    ELSE worldMaxStepSize
       IN /\ worldMaxStepSize' = dt
          /\ simTime' = TimeAdd(simTime, dt)
    /\ physicsSeen' = Len(physicsMsgs)
    /\ worldIterations' = worldIterations + 1
    /\ pcWorld' = IF subs.update THEN "callback" ELSE "end"
    /\ UNCHANGED <<worldPaused, stepInc, physicsMsgs, worldModel, jointState,
                   memberVars, pcDriver, pcControl, pcModel, lookup, acc,
                   fatalDiag, terminated, obsVars,
                   auxVars>>

\* a callback that logs the step size without recording that it did
on_gazebo_update_noflag ==
    /\ ~terminated /\ pcWorld = "callback"
    /\ fdmTimestamp' = ToSeconds(simTime)
    /\ IF ~timeMsgAlreadyDisplayed
          THEN /\ stepSizeLog' = stepSizeLog + 1
               /\ UNCHANGED timeMsgAlreadyDisplayed
          ELSE UNCHANGED <<stepSizeLog, timeMsgAlreadyDisplayed>>
    /\ Touch("world", {<<"parent_world", "r">>, <<"fdm.timestamp", "w">>,
                       <<"timeMsgAlreadyDisplayed", "r">>})
    /\ updateCalls' = updateCalls + 1
    /\ pcWorld' = "end"
    /\ UNCHANGED <<worldVars, sdf, modelName, nbMotorSpeed, isSimPaused, subs, veh,
                   pcDriver, pcControl, pcModel, lookup, fatalDiag, terminated,
                   stepCalls, pauseEvents, isSimPaused0, itersAtCall, tsAtCall,
                   infoName, itersAtInit, pausedAtCall, lastControl,
                   auxVars>>

\* the WorldUpdateEnd callback
on_gazebo_update ==
    /\ ~terminated /\ pcWorld = "callback"
    /\ fdmTimestamp' = ToSeconds(simTime)
    /\ IF ~timeMsgAlreadyDisplayed
          THEN /\ stepSizeLog' = stepSizeLog + 1
               /\ timeMsgAlreadyDisplayed' = TRUE
               /\ Touch("world", {<<"parent_world", "r">>, <<"fdm.timestamp", "w">>,
                                  <<"timeMsgAlreadyDisplayed", "r">>,
                                  <<"timeMsgAlreadyDisplayed", "w">>})
          ELSE /\ UNCHANGED <<stepSizeLog, timeMsgAlreadyDisplayed>>
               /\ Touch("world", {<<"parent_world", "r">>, <<"fdm.timestamp", "w">>,
                                  <<"timeMsgAlreadyDisplayed", "r">>})
    /\ updateCalls' = updateCalls + 1
    /\ pcWorld' = "end"
    /\ UNCHANGED <<worldVars, sdf, modelName, nbMotorSpeed, isSimPaused, subs, veh,
                   pcDriver, pcControl, pcModel, lookup, fatalDiag, terminated,
                   stepCalls, pauseEvents, isSimPaused0, itersAtCall, tsAtCall,
                   infoName, itersAtInit, pausedAtCall, lastControl,
                   auxVars>>

\* the iteration is complete: a requested step is counted as made
WorldUpdateEnd ==
    /\ ~terminated /\ pcWorld = "end"
    /\ stepInc' = IF worldPaused /\ stepInc > 0 THEN stepInc - 1 ELSE stepInc
    /\ pcWorld' = "loop"
    /\ Touch("world", {})
    /\ UNCHANGED <<worldPaused, worldIterations, simTime, worldMaxStepSize,
                   physicsMsgs, physicsSeen, worldModel, jointState, memberVars,
                   pcDriver, pcControl, pcModel, lookup, fatalDiag, terminated,
                   obsVars,
                   auxVars>>

\* ----------------------------------------------------- on_gazebo_control
\* a handler that assigns the requested value instead of toggling
on_gazebo_control_assign(msg) ==
    /\ ~terminated /\ pcControl = "idle" /\ subs.control
    /\ IF msg.has_pause
          THEN /\ pauseEvents < MaxControl
               /\ isSimPaused' = msg.pause
               /\ worldPaused' = IF isSimPaused' THEN TRUE ELSE worldPaused
               /\ pauseEvents' = pauseEvents + 1
               /\ Touch("control", {<<"isSimPaused", "r">>, <<"isSimPaused", "w">>}
                           \cup IF isSimPaused' THEN {<<"parent_world", "r">>} ELSE {})
          ELSE /\ UNCHANGED <<isSimPaused, worldPaused, pauseEvents>>
               /\ Touch("control", {})
    /\ lastControl' = <<msg>>
    /\ pcControl' = "handling"
    /\ UNCHANGED <<stepInc, worldIterations, simTime, worldMaxStepSize, physicsMsgs,
                   physicsSeen, worldModel, jointState, sdf, modelName, nbMotorSpeed,
                   timeMsgAlreadyDisplayed, fdmTimestamp, subs, veh, pcDriver,
                   pcWorld, pcModel, lookup, fatalDiag, terminated, stepSizeLog,
                   stepCalls, updateCalls, isSimPaused0, itersAtCall, tsAtCall,
                   infoName, itersAtInit, pausedAtCall,
                   auxVars>>

\* a handler that resumes the world when the flag flips to resumed
on_gazebo_control_unpause(msg) ==
    /\ ~terminated /\ pcControl = "idle" /\ subs.control
    /\ IF msg.has_pause
          THEN /\ pauseEvents < MaxControl
               /\ isSimPaused' = ~isSimPaused
               /\ worldPaused' = isSimPaused'
               /\ pauseEvents' = pauseEvents + 1
               /\ Touch("control", {<<"isSimPaused", "r">>, <<"isSimPaused", "w">>,
                                    <<"parent_world", "r">>})
          ELSE /\ UNCHANGED <<isSimPaused, worldPaused, pauseEvents>>
               /\ Touch("control", {})
    /\ lastControl' = <<msg>>
    /\ pcControl' = "handling"
    /\ UNCHANGED <<stepInc, worldIterations, simTime, worldMaxStepSize, physicsMsgs,
                   physicsSeen, worldModel, jointState, sdf, modelName, nbMotorSpeed,
                   timeMsgAlreadyDisplayed, fdmTimestamp, subs, veh, pcDriver,
                   pcWorld, pcModel, lookup, fatalDiag, terminated, stepSizeLog,
                   stepCalls, updateCalls, isSimPaused0, itersAtCall, tsAtCall,
                   infoName, itersAtInit, pausedAtCall,
                   auxVars>>

on_gazebo_control(msg) ==
    /\ ~terminated /\ pcControl = "idle" /\ subs.control
    /\ IF msg.has_pause
          THEN /\ pauseEvents < MaxControl
               /\ isSimPaused' = ~isSimPaused
               /\ worldPaused' = IF isSimPaused' THEN TRUE ELSE worldPaused
               /\ pauseEvents' = pauseEvents + 1
               /\ Touch("control", {<<"isSimPaused", "r">>, <<"isSimPaused", "w">>}
                           \cup IF isSimPaused' THEN {<<"parent_world", "r">>} ELSE {})
          ELSE /\ UNCHANGED <<isSimPaused, worldPaused, pauseEvents>>
               /\ Touch("control", {})
    /\ lastControl' = <<msg>>
    /\ pcControl' = "handling"
    /\ UNCHANGED <<stepInc, worldIterations, simTime, worldMaxStepSize, physicsMsgs,
                   physicsSeen, worldModel, jointState, sdf, modelName, nbMotorSpeed,
                   timeMsgAlreadyDisplayed, fdmTimestamp, subs, veh, pcDriver,
                   pcWorld, pcModel, lookup, fatalDiag, terminated, stepSizeLog,
                   stepCalls, updateCalls, isSimPaused0, itersAtCall, tsAtCall,
                   infoName, itersAtInit, pausedAtCall,
                   auxVars>>

on_gazebo_control_return ==
    /\ ~terminated /\ pcControl = "handling"
    /\ pcControl' = "idle"
    /\ Touch("control", {})
    /\ lastControl' = <<>>
    /\ UNCHANGED <<worldVars, memberVars, pcDriver, pcWorld, pcModel, lookup,
                   fatalDiag, terminated, stepSizeLog, stepCalls, updateCalls,
                   pauseEvents, isSimPaused0, itersAtCall, tsAtCall, infoName,
                   itersAtInit, pausedAtCall,
                   auxVars>>

\* an inspector that knows cylinders only
get_collision_radius_cylinder(coll) ==
    IF coll = <<>> \/ coll[1] = <<>> THEN 0
    ELSE IF coll[1][1].type = "CYLINDER_SHAPE" THEN coll[1][1].radius
    ELSE 0

\* -------------------------------------------------- get_collision_radius
get_collision_radius(coll) ==
    IF coll = <<>> \/ coll[1] = <<>> THEN 0
    ELSE IF coll[1][1].type = "CYLINDER_SHAPE" THEN coll[1][1].radius
    ELSE IF coll[1][1].type = "SPHERE_SHAPE" THEN coll[1][1].radius
    ELSE 0

\* ------------------------------------------------- on_rover_model_loaded
\* an exception that the message dispatcher catches: the handler is abandoned
\* and the process goes on
gzthrow_caught(msg) ==
    /\ fatalDiag' = msg
    /\ terminated' = FALSE
    /\ pcModel' = "return"
    /\ lookup' = 0

\* gzthrow: a gazebo::common::Exception leaves on_rover_model_loaded and
\* on_gazebo_modelInfo, neither of which catches it, and ends the process
gzthrow(msg) ==
    /\ fatalDiag' = msg
    /\ terminated' = TRUE
    /\ UNCHANGED <<pcModel, lookup>>

\* the members written by lines 196-208 before any joint is looked up
Placeholders ==
    [f \in {"wheelRadius"} \cup {RadiusField[w] : w \in WheelFields} |-> 1] @@
    [f \in {"steeredWheelForce"} |-> 50000] @@
    [f \in ParamFields \cup {"tireAngleRange"} |-> 0]

on_rover_model_loaded_begin ==
    /\ ~terminated /\ pcModel = "begin"
    /\ veh' = [f \in DOMAIN veh |->
                 IF f = "rover_model" THEN "rover"
                 ELSE IF f = "node" THEN "node"
                 ELSE IF f \in DOMAIN Placeholders THEN Placeholders[f]
                 ELSE veh[f]]
    /\ pcModel' = "joint"
    /\ lookup' = 1
    /\ Touch("modelInfo", {<<"parent_world", "r">>, <<"vehicle", "w">>})
    /\ UNCHANGED <<worldVars, sdf, modelName, nbMotorSpeed, isSimPaused,
                   timeMsgAlreadyDisplayed, fdmTimestamp, subs, pcDriver, pcWorld,
                   pcControl, fatalDiag, terminated, obsVars,
                   auxVars>>

\* a resolver that locks each wheel joint as soon as it has found it
on_rover_model_loaded_joint_eager ==
    /\ ~terminated /\ pcModel = "joint"
    /\ LET l == JointLookups[lookup]
           h == GetJoint(worldModel, l.name)
       IN /\ veh' = [veh EXCEPT ![l.field] = h]
          /\ jointState' = IF h # Null /\ l.field \in WheelFields
                              THEN [jointState EXCEPT ![h] =
                                      [high |-> 0, low |-> 0, erp |-> 0, cfm |-> 100]]
                              ELSE jointState
          /\ IF h = Null
                THEN gzthrow(l.msg)
                ELSE /\ pcModel' = IF lookup < Len(JointLookups) THEN "joint" ELSE "params"
                     /\ lookup' = IF lookup < Len(JointLookups) THEN lookup + 1 ELSE 0
                     /\ UNCHANGED <<fatalDiag, terminated>>
    /\ Touch("modelInfo", {<<"vehicle", "r">>, <<"vehicle", "w">>})
    /\ UNCHANGED <<worldPaused, stepInc, worldIterations, simTime, worldMaxStepSize,
                   physicsMsgs, physicsSeen, worldModel, sdf, modelName,
                   nbMotorSpeed, isSimPaused, timeMsgAlreadyDisplayed, fdmTimestamp,
                   subs, pcDriver, pcWorld, pcControl, obsVars, auxVars>>

\* one of the six lookups of lines 214-238
on_rover_model_loaded_joint ==
    /\ ~terminated /\ pcModel = "joint"
    /\ LET l == JointLookups[lookup]
           h == GetJoint(worldModel, l.name)
       IN /\ veh' = [veh EXCEPT ![l.field] = h]
          /\ IF h = Null
                THEN gzthrow(l.msg)
                ELSE /\ pcModel' = IF lookup < Len(JointLookups) THEN "joint" ELSE "params"
                     /\ lookup' = IF lookup < Len(JointLookups) THEN lookup + 1 ELSE 0
                     /\ UNCHANGED <<fatalDiag, terminated>>
    /\ Touch("modelInfo", {<<"vehicle", "r">>, <<"vehicle", "w">>})
    /\ UNCHANGED <<worldVars, sdf, modelName, nbMotorSpeed, isSimPaused,
                   timeMsgAlreadyDisplayed, fdmTimestamp, subs, pcDriver, pcWorld,
                   pcControl, obsVars,
                   auxVars>>

\* a reader that takes the default whether or not the element is present
ResolvedParam_default(cfg, i) == ParamTable[i].dflt

\* the value lines 244-277 give the member of ParamTable[i]
ResolvedParam(cfg, i) ==
    IF HasElement(cfg, ParamTable[i].name)
       THEN Get(cfg, ParamTable[i].name)
       ELSE ParamTable[i].dflt

on_rover_model_loaded_params ==
    /\ ~terminated /\ pcModel = "params"
    /\ veh' = [f \in DOMAIN veh |->
                 IF \E i \in 1..Len(ParamTable) : ParamTable[i].field = f
                    THEN ResolvedParam(sdf, CHOOSE i \in 1..Len(ParamTable) :
                                                ParamTable[i].field = f)
                    ELSE veh[f]]
    /\ pcModel' = "stops"
    /\ Touch("modelInfo", {<<"sdf", "r">>, <<"vehicle", "w">>})
    /\ UNCHANGED <<worldVars, sdf, modelName, nbMotorSpeed, isSimPaused,
                   timeMsgAlreadyDisplayed, fdmTimestamp, subs, pcDriver, pcWorld,
                   pcControl, lookup, fatalDiag, terminated, obsVars,
                   auxVars>>

\* a resolver that locks every joint it holds a handle of, steering included
on_rover_model_loaded_stops_all ==
    /\ ~terminated /\ pcModel = "stops"
    /\ jointState' = [j \in DOMAIN jointState |->
                        IF \E f \in JointFields : veh[f] = j
                           THEN [high |-> 0, low |-> 0, erp |-> 0, cfm |-> 100]
                           ELSE jointState[j]]
    /\ pcModel' = "radii"
    /\ Touch("modelInfo", {<<"vehicle", "r">>})
    /\ UNCHANGED <<worldPaused, stepInc, worldIterations, simTime, worldMaxStepSize,
                   physicsMsgs, physicsSeen, worldModel, memberVars, pcDriver, pcWorld,
                   pcControl, lookup, fatalDiag, terminated, obsVars,
                   auxVars>>

\* lines 280-300: SetHighStop, SetLowStop, stop_erp and stop_cfm of the joints
\* held by the four wheel members
on_rover_model_loaded_stops ==
    /\ ~terminated /\ pcModel = "stops"
    /\ jointState' = [j \in DOMAIN jointState |->
                        IF \E f \in WheelFields : veh[f] = j
                           THEN [high |-> 0, low |-> 0, erp |-> 0, cfm |-> 100]
                           ELSE jointState[j]]
    /\ pcModel' = "radii"
    /\ Touch("modelInfo", {<<"vehicle", "r">>})
    /\ UNCHANGED <<worldPaused, stepInc, worldIterations, simTime, worldMaxStepSize,
                   physicsMsgs, physicsSeen, worldModel, memberVars, pcDriver, pcWorld,
                   pcControl, lookup, fatalDiag, terminated, obsVars,
                   auxVars>>

\* lines 305-313: the radius of collision 0 of each wheel joint's child link
on_rover_model_loaded_radii ==
    /\ ~terminated /\ pcModel = "radii"
    /\ veh' = [f \in DOMAIN veh |->
                 IF \E w \in WheelFields : RadiusField[w] = f
                    THEN get_collision_radius(
                            worldModel.collision0[
                                veh[CHOOSE w \in WheelFields : RadiusField[w] = f]])
                    ELSE veh[f]]
    /\ pcModel' = "return"
    /\ Touch("modelInfo", {<<"vehicle", "r">>, <<"vehicle", "w">>})
    /\ UNCHANGED <<worldVars, sdf, modelName, nbMotorSpeed, isSimPaused,
                   timeMsgAlreadyDisplayed, fdmTimestamp, subs, pcDriver, pcWorld,
                   pcControl, lookup, fatalDiag, terminated, obsVars,
                   auxVars>>

\* --------------------------------------------------- on_gazebo_modelInfo
\* a detector that matches the name against the configured _modelName
on_gazebo_modelInfo_configured(name) ==
    /\ ~terminated /\ pcModel = "idle" /\ subs.modelInfo
    /\ infoName' = name
    /\ pcModel' = IF compare(name, modelName) = 0 THEN "begin" ELSE "return"
    /\ Touch("modelInfo", {})
    /\ UNCHANGED <<worldVars, memberVars, pcDriver, pcWorld, pcControl, lookup,
                   fatalDiag, terminated, stepSizeLog, stepCalls, updateCalls,
                   pauseEvents, isSimPaused0, itersAtCall, tsAtCall, itersAtInit,
                   pausedAtCall, lastControl,
                   auxVars>>

\* a detector that skips the resolver once a rover model has been found
on_gazebo_modelInfo_dedup(name) ==
    /\ ~terminated /\ pcModel = "idle" /\ subs.modelInfo
    /\ infoName' = name
    /\ pcModel' = IF compare(name, "rover") = 0 /\ veh.rover_model = Null
                     THEN "begin" ELSE "return"
    /\ Touch("modelInfo", {})
    /\ UNCHANGED <<worldVars, memberVars, pcDriver, pcWorld, pcControl, lookup,
                   fatalDiag, terminated, stepSizeLog, stepCalls, updateCalls,
                   pauseEvents, isSimPaused0, itersAtCall, tsAtCall, itersAtInit,
                   pausedAtCall, lastControl,
                   auxVars>>

on_gazebo_modelInfo(name) ==
    /\ ~terminated /\ pcModel = "idle" /\ subs.modelInfo
    /\ infoName' = name
    /\ pcModel' = IF compare(name, "rover") = 0 THEN "begin" ELSE "return"
    /\ Touch("modelInfo", {})
    /\ UNCHANGED <<worldVars, memberVars, pcDriver, pcWorld, pcControl, lookup,
                   fatalDiag, terminated, stepSizeLog, stepCalls, updateCalls,
                   pauseEvents, isSimPaused0, itersAtCall, tsAtCall, itersAtInit,
                   pausedAtCall, lastControl,
                   auxVars>>

on_gazebo_modelInfo_return ==
    /\ ~terminated /\ pcModel = "return"
    /\ pcModel' = "idle"
    /\ Touch("modelInfo", {})
    /\ infoName' = ""
    /\ resolved1' = IF infoName = "rover" /\ resolved1 = <<>>
                        THEN <<[veh |-> veh, jointState |-> jointState]>>
                        ELSE resolved1
    /\ UNCHANGED <<worldVars, memberVars, pcDriver, pcWorld, pcControl, lookup,
                   fatalDiag, terminated, stepSizeLog, stepCalls, updateCalls,
                   pauseEvents, isSimPaused0, itersAtCall, tsAtCall, itersAtInit,
                   pausedAtCall, lastControl, sdfArg, initReturned>>

\* -------------------------------------------------------- specification
Next ==
    \/ init_gazebo_side_config
    \/ init_gazebo_side_pause
    \/ init_gazebo_side_publish
    \/ init_gazebo_side_subscribe
    \/ init_gazebo_side_connect
    \/ step_gazebo_sim
    \/ step_gazebo_sim_return
    \/ WorldUpdate
    \/ on_gazebo_update
    \/ WorldUpdateEnd
    \/ \E msg \in ControlMsgs : on_gazebo_control(msg)
    \/ on_gazebo_control_return
    \/ \E name \in ModelNames : on_gazebo_modelInfo(name)
    \/ on_gazebo_modelInfo_return
    \/ on_rover_model_loaded_begin
    \/ on_rover_model_loaded_joint
    \/ on_rover_model_loaded_params
    \/ on_rover_model_loaded_stops
    \/ on_rover_model_loaded_radii

Spec == Init /\ [][Next]_vars
SpecCfg == InitCfg /\ [][Next]_vars

\* ================================================================ claims
\* the world has been paused by init_gazebo_side
PausedByInit == pcDriver \notin {"init_config", "init_pause"}

\* C1: N calls of step_gazebo_sim() advance the world by exactly N iterations,
\* whatever isSimPaused is when a call is made: counted from the moment
\* init_gazebo_side paused the world, the iterations made equal the calls made
\* whenever no call is in progress, and a call in progress accounts for exactly
\* one iteration, made between its request and its return.
C1_StepAdvancesExactlyOneTick ==
    /\ (PausedByInit /\ pcDriver # "step") =>
            worldIterations = itersAtInit + stepCalls
    /\ pcDriver = "step" =>
            worldIterations = itersAtInit + stepCalls
                              - (IF stepInc > 0 /\ pcWorld = "loop" THEN 1 ELSE 0)

\* a second call began with isSimPaused set and has made its iteration
C1_Witness ==
    /\ pcDriver = "step" /\ stepInc = 0 /\ pausedAtCall
    /\ stepCalls = 2 /\ pauseEvents > 0
    /\ worldIterations = itersAtInit + 2

\* C2: with isSimPaused false after construction, after k control messages that
\* carry a pause field isSimPaused is true exactly when k is odd; a message
\* without a pause field leaves isSimPaused unchanged; and no control message
\* changes the iteration count or the step request.
C2_PauseToggleParity ==
    /\ [](isSimPaused0 = FALSE => (isSimPaused <=> pauseEvents % 2 = 1))
    /\ [][(pcControl = "idle" /\ pcControl' = "handling") =>
            /\ (~lastControl'[1].has_pause => isSimPaused' = isSimPaused)
            /\ (lastControl'[1].has_pause => pauseEvents' = pauseEvents + 1)
            /\ worldIterations' = worldIterations
            /\ stepInc' = stepInc
            /\ stepCalls' = stepCalls]_vars

\* two pause requests have been handled, the second with pause=true, and a
\* step has been requested in between
C2_Witness ==
    /\ isSimPaused0 = FALSE /\ pauseEvents = 2 /\ ~isSimPaused
    /\ pcControl = "handling" /\ lastControl[1].has_pause /\ lastControl[1].pause
    /\ stepCalls > 0

\* C3: once init_gazebo_side has paused the world, the world stays paused in
\* every state, whatever control messages (no pause field, pause=true,
\* pause=false) and model-info messages arrive, and every iteration made
\* serves a step requested by step_gazebo_sim().
C3_TimeAdvancesOnlyInStep ==
    /\ [](PausedByInit => worldPaused)
    /\ [][(PausedByInit /\ worldIterations' # worldIterations) =>
            (pcDriver = "step" /\ stepInc > 0 /\ worldIterations' = worldIterations + 1)]_vars

\* a pause=false message has flipped the flag to resumed, after an iteration
C3_Witness ==
    /\ pcControl = "handling" /\ lastControl[1].has_pause /\ ~lastControl[1].pause
    /\ ~isSimPaused /\ worldPaused
    /\ worldIterations > itersAtInit /\ pcDriver = "idle"

\* every joint handle is set and every parameter and radius holds the value
\* the resolver gives it
FullyResolved ==
    /\ \A f \in JointFields : veh[f] # Null
    /\ \A i \in 1..Len(ParamTable) : veh[ParamTable[i].field] = ResolvedParam(sdf, i)
    /\ \A w \in WheelFields :
          veh[RadiusField[w]] = get_collision_radius(worldModel.collision0[veh[w]])

\* C4: in every reachable state, mid-resolution and after a failed resolution
\* included, the vehicle model is absent (_rover_model unset) or fully
\* resolved: no state shows _rover_model set together with a null joint handle
\* or a placeholder parameter or radius.
C4_NoPartialVehicle == veh.rover_model = Null \/ FullyResolved

\* the joint a diagnostic text names ("back" is the rear axle)
JointNamedBy(msg) ==
    CASE msg = "could not find front left wheel joint" -> "front_left_wheel_joint"
      [] msg = "could not find front right wheel joint" -> "front_right_wheel_joint"
      [] msg = "could not find back left wheel joint" -> "rear_left_wheel_joint"
      [] msg = "could not find back right wheel joint" -> "rear_right_wheel_joint"
      [] msg = "could not find front left steering joint" -> "front_left_steering_joint"
      [] msg = "could not find front right steering joint" -> "front_right_steering_joint"
      [] OTHER -> Null

\* C5: for each of the six required joints, resolving a model that lacks
\* exactly that joint fails with a diagnostic that names that joint, and
\* resolving a model with all six joints raises no error.
C5_DiagnosticNamesMissingJoint ==
    /\ \A j \in JointNames :
          (worldModel.joints = JointNames \ {j} /\ fatalDiag # NoError) =>
              JointNamedBy(fatalDiag) = j
    /\ \A j \in JointNames :
          worldModel.joints = JointNames \ {j} =>
              pcModel \notin {"params", "stops", "radii"}
    /\ worldModel.joints = JointNames => fatalDiag = NoError

\* C6: once a lookup made for a matching model-info message finds a required
\* joint missing the run is terminated: that lookup step ends the process,
\* and from then on no step, callback, control message or model-info message
\* changes anything.
C6_MissingJointTerminates ==
    /\ [][(pcModel = "joint" /\ JointLookups[lookup].name \notin worldModel.joints
           /\ <<veh, pcModel, lookup, fatalDiag, terminated>>' #
              <<veh, pcModel, lookup, fatalDiag, terminated>>)
          => (terminated' /\ fatalDiag' # NoError)]_vars
    /\ [](fatalDiag # NoError => terminated)
    /\ [][terminated => UNCHANGED vars]_vars

\* a lookup has failed while a step was in progress and control messages had
\* been handled
C6_Witness ==
    /\ terminated /\ fatalDiag # NoError
    /\ pcDriver = "step" /\ stepInc > 0 /\ pauseEvents > 0

\* C7: a model-info message starts the resolver exactly when its name equals
\* the target identifier "rover"; a message with another name starts no
\* resolution and changes no vehicle state, also when UAV_MODEL configures
\* that other name; the vehicle state changes only during a resolution
\* started by a message named "rover".
C7_ResolverRunsIffNameIsRover ==
    /\ [][(pcModel = "idle" /\ pcModel' # "idle") =>
            /\ (pcModel' = "begin") <=> (infoName' = "rover")
            /\ (infoName' # "rover" => pcModel' = "return")
            /\ veh' = veh /\ jointState' = jointState]_vars
    /\ [][(veh' # veh \/ jointState' # jointState) =>
            (infoName = "rover" /\ pcModel \in {"begin", "joint", "params", "stops", "radii"})]_vars
    /\ [](pcModel \in {"begin", "joint", "params", "stops", "radii"} => infoName = "rover")

\* a message carrying the configured name "drone1" has been handled without
\* starting the resolver
C7_Witness ==
    /\ modelName = "drone1" /\ infoName = "drone1" /\ pcModel = "return"
    /\ veh = CtorVehicle

SharedFields == {"isSimPaused", "fdm.timestamp", "timeMsgAlreadyDisplayed"}

C9_DiagnosticOnce ==
    /\ [](updateCalls = 0 => stepSizeLog = 0)
    /\ [](updateCalls >= 1 => (stepSizeLog = 1 /\ timeMsgAlreadyDisplayed))
    /\ [][stepSizeLog' # stepSizeLog => (updateCalls = 0 /\ updateCalls' = 1)]_vars
    /\ [][timeMsgAlreadyDisplayed => timeMsgAlreadyDisplayed']_vars

\* a second callback has run
C9_Witness == updateCalls = 2 /\ stepSizeLog = 1 /\ pcWorld = "end"

\* C10: the timestamp never decreases; when a step has been made and its
\* callback has run it equals the world's simulated time and exceeds the
\* value it had when the step was requested; only the post-step callback
\* changes it.
C10_TimestampMonotonic ==
    /\ [][fdmTimestamp' >= fdmTimestamp]_vars
    /\ []((stepCalls > 0 /\ stepInc = 0) =>
            /\ fdmTimestamp = simTime.sec * NsPerSec + simTime.nsec
            /\ fdmTimestamp > tsAtCall)
    /\ [][fdmTimestamp' # fdmTimestamp => (pcWorld = "callback" /\ pcWorld' = "end")]_vars

\* two steps have been made across a second boundary of the world clock
C10_Witness ==
    /\ stepCalls = 2 /\ pcDriver = "idle"
    /\ simTime.sec = 1 /\ simTime.nsec > 0
    /\ fdmTimestamp > NsPerSec

AfterResolution ==
    \/ pcModel = "return" /\ infoName = "rover"
    \/ resolved1 # <<>> /\ pcModel \in {"idle", "return"}

\* the value the documentation gives a parameter: the element's value when
\* the element is present, the default d otherwise
Documented(element, d) == IF element = <<>> THEN d ELSE element[1]

\* C12: for every subset of front_torque, back_torque, max_speed, max_steer
\* and aero_load present in the configuration, after a successful resolution
\* each parameter equals the provided value when its element is present and
\* otherwise its default 0, 2000, 10, 0.6, 0.1; an absent element raises no
\* error.
C12_ParamsProvidedOrDefault ==
    /\ AfterResolution =>
          /\ veh.frontTorque = Documented(sdfArg.front_torque, 0)
          /\ veh.backTorque = Documented(sdfArg.back_torque, 20000)
          /\ veh.maxSpeed = Documented(sdfArg.max_speed, 100)
          /\ veh.maxSteer = Documented(sdfArg.max_steer, 6)
          /\ veh.aeroLoad = Documented(sdfArg.aero_load, 1)
    /\ worldModel.joints = JointNames => (fatalDiag = NoError /\ ~terminated)

\* a resolution has completed for a configuration that provides front_torque
\* and max_steer and leaves back_torque, max_speed and aero_load out
C12_Witness ==
    /\ resolved1 # <<>> /\ pcModel = "idle"
    /\ HasElement(sdfArg, "front_torque") /\ HasElement(sdfArg, "max_steer")
    /\ ~HasElement(sdfArg, "back_torque") /\ ~HasElement(sdfArg, "max_speed")
    /\ ~HasElement(sdfArg, "aero_load")
    /\ veh.frontTorque = 7 /\ veh.backTorque = 20000

\* the wheel joint each radius member is documented to be derived from
RadiusOfJoint ==
    [flWheelRadius |-> "front_left_wheel_joint",
     frWheelRadius |-> "front_right_wheel_joint",
     blWheelRadius |-> "rear_left_wheel_joint",
     brWheelRadius |-> "rear_right_wheel_joint"]

\* C13: the radius of a cylinder of radius R is R, of a sphere of radius R is
\* R, and of a null collision, a collision without a shape or any other
\* shape is 0; no error is raised; after a resolution each wheel radius is
\* that radius of collision 0 of the child link of its own wheel joint.
C13_RadiusOfCollisionZero ==
    /\ AfterResolution =>
          \A r \in DOMAIN RadiusOfJoint :
              LET c == worldModel.collision0[RadiusOfJoint[r]]
              IN /\ c = <<>> => veh[r] = 0
                 /\ (c # <<>> /\ c[1] = <<>>) => veh[r] = 0
                 /\ (c # <<>> /\ c[1] # <<>> /\ c[1][1].type = "CYLINDER_SHAPE")
                        => veh[r] = c[1][1].radius
                 /\ (c # <<>> /\ c[1] # <<>> /\ c[1][1].type = "SPHERE_SHAPE")
                        => veh[r] = c[1][1].radius
                 /\ (c # <<>> /\ c[1] # <<>>
                        /\ c[1][1].type \notin {"CYLINDER_SHAPE", "SPHERE_SHAPE"})
                        => veh[r] = 0
    /\ pcModel = "return" => fatalDiag = NoError

\* a resolution has completed for a rover whose rear left wheel is a sphere
\* of radius 2, whose rear right wheel is a box, whose front right wheel is
\* a cylinder of radius 3 and whose front left wheel has a shapeless collision
C13_Witness ==
    /\ resolved1 # <<>> /\ pcModel = "idle"
    /\ worldModel.collision0["front_left_wheel_joint"] = << <<>> >>
    /\ worldModel.collision0["rear_right_wheel_joint"] # <<>>
    /\ worldModel.collision0["rear_right_wheel_joint"][1] # <<>>
    /\ worldModel.collision0["rear_right_wheel_joint"][1][1].type = "BOX_SHAPE"
    /\ veh.flWheelRadius = 0 /\ veh.frWheelRadius = 3
    /\ veh.blWheelRadius = 2 /\ veh.brWheelRadius = 0

\* C14: each shared field has one writer. _isSimPaused changes only when
\* on_gazebo_control runs, the timestamp only when on_gazebo_update runs, the
\* vehicle members (handles, radii, parameters) only in a step of
\* on_rover_model_loaded; step_gazebo_sim and init_gazebo_side change none of
\* them, and each handler leaves unchanged the fields of the other two.
C14_SingleWriter ==
    [][ /\ isSimPaused' # isSimPaused =>
              (pcControl = "idle" /\ pcControl' = "handling"
               /\ fdmTimestamp' = fdmTimestamp /\ veh' = veh)
        /\ fdmTimestamp' # fdmTimestamp =>
              (pcWorld = "callback" /\ pcWorld' = "end"
               /\ isSimPaused' = isSimPaused /\ veh' = veh)
        /\ veh' # veh =>
              (pcModel \in {"begin", "joint", "params", "radii"}
               /\ (pcModel' # pcModel \/ lookup' # lookup \/ terminated')
               /\ isSimPaused' = isSimPaused /\ fdmTimestamp' = fdmTimestamp)
        /\ pcDriver' # pcDriver =>
              (isSimPaused' = isSimPaused /\ fdmTimestamp' = fdmTimestamp
               /\ veh' = veh)
      ]_vars

\* the three writers have each written, and the driver has stepped: the flag
\* differs from its first value, the timestamp is set, the vehicle resolved
C14_Witness ==
    /\ isSimPaused # isSimPaused0
    /\ fdmTimestamp > 0
    /\ resolved1 # <<>>
    /\ stepCalls > 0 /\ pcDriver = "idle"

\* C15: every model-info message named "rover" starts one run of the
\* resolver, also when a run has completed before, and a run starts in no
\* other way, so runs and matching messages are equal in number; the vehicle
\* members and the joints' stops and coefficients after a second or later
\* run are those the first run left.
C15_RerunEveryEventIdempotent ==
    /\ [][(pcModel = "idle" /\ pcModel' # "idle" /\ infoName' = "rover")
              => pcModel' = "begin"]_vars
    /\ [][(pcModel # "begin" /\ pcModel' = "begin")
              => (pcModel = "idle" /\ infoName' = "rover")]_vars
    /\ []((resolved1 # <<>> /\ pcModel \in {"idle", "return"})
              => (veh = resolved1[1].veh /\ jointState = resolved1[1].jointState))

\* a second run of the resolver has completed
C15_Witness ==
    /\ resolved1 # <<>>
    /\ pcModel = "return" /\ infoName = "rover"
    /\ veh = resolved1[1].veh

\* C16: after a successful resolution each of the four wheel joints has
\* upper stop 0, lower stop 0, stop_erp 0 and stop_cfm 10.0, and the two
\* steering joints have the stops and coefficients they had before.
C16_WheelStopsSteeringUntouched ==
    AfterResolution =>
        /\ \A j \in {"front_left_wheel_joint", "front_right_wheel_joint",
                     "rear_left_wheel_joint", "rear_right_wheel_joint"} :
              /\ jointState[j].high = 0 /\ jointState[j].low = 0
              /\ jointState[j].erp = 0 /\ jointState[j].cfm = 100
        /\ \A j \in {"front_left_steering_joint", "front_right_steering_joint"} :
              jointState[j] = [high |-> 10, low |-> -10, erp |-> 2, cfm |-> 0]

\* a resolution has completed: the rear right wheel is locked and the front
\* left steering joint still has its stops
C16_Witness ==
    /\ resolved1 # <<>> /\ pcModel = "idle" /\ fatalDiag = NoError
    /\ jointState["rear_right_wheel_joint"].cfm = 100
    /\ jointState["rear_right_wheel_joint"].high = 0
    /\ jointState["front_left_steering_joint"].high = 10

\* C17: a control message changes _isSimPaused according to the presence of
\* its pause field alone: with the field, whatever its value, the flag is
\* negated, without it the flag is kept, so the flag is the parity of the
\* messages that carried the field. When the flag becomes true the handler
\* pauses the world; when it becomes false the handler makes no call on the
\* world.
C17_ToggleIgnoresPauseValue ==
    /\ [][(pcControl = "idle" /\ pcControl' = "handling") =>
            LET msg == lastControl'[1]
            IN /\ msg.has_pause => isSimPaused' = ~isSimPaused
               /\ ~msg.has_pause => isSimPaused' = isSimPaused
               /\ (msg.has_pause /\ isSimPaused') =>
                     (worldPaused' /\ <<"parent_world", "r">> \in acc'["control"])
               /\ (msg.has_pause /\ ~isSimPaused') =>
                     /\ worldPaused' = worldPaused /\ stepInc' = stepInc
                     /\ <<"parent_world", "r">> \notin acc'["control"]]_vars
    /\ []((isSimPaused # isSimPaused0) <=> (pauseEvents % 2 = 1))

\* a message carrying pause = false has set the flag, and the handler has
\* paused the world
C17_Witness ==
    /\ pcControl = "handling"
    /\ lastControl = <<[has_pause |-> TRUE, pause |-> FALSE]>>
    /\ isSimPaused /\ worldPaused
    /\ <<"parent_world", "r">> \in acc["control"]

\* C18: after a successful resolution every joint handle refers to the joint
\* of the matching name: the four wheel handles to the wheel joints of their
\* corner, the front left steering handle to front_left_steering_joint and
\* the front right steering handle to front_right_steering_joint.
C18_HandlesMatchIdentifiers ==
    AfterResolution =>
        /\ veh.flWheelJoint = "front_left_wheel_joint"
        /\ veh.frWheelJoint = "front_right_wheel_joint"
        /\ veh.blWheelJoint = "rear_left_wheel_joint"
        /\ veh.brWheelJoint = "rear_right_wheel_joint"
        /\ veh.flWheelSteeringJoint = "front_left_steering_joint"
        /\ veh.frWheelSteeringJoint = "front_right_steering_joint"

\* C19: a failed resolution modifies no joint and reads no configuration
\* parameter: a stop or coefficient is written, and the configuration read,
\* only after all six lookups have succeeded, so when a joint is missing
\* every joint the model has keeps its stops and coefficients and the
\* parameter members are still the placeholders.
C19_FailedResolutionTouchesNothing ==
    /\ [](fatalDiag # NoError =>
            /\ \A j \in DOMAIN jointState :
                  jointState[j] = [high |-> 10, low |-> -10, erp |-> 2, cfm |-> 0]
            /\ veh.frontTorque = 0 /\ veh.backTorque = 0 /\ veh.maxSpeed = 0
            /\ veh.maxSteer = 0 /\ veh.aeroLoad = 0
            /\ resolved1 = <<>>)
    /\ [][(jointState' # jointState \/ <<"sdf", "r">> \in acc'["modelInfo"]) =>
            (/\ veh.flWheelJoint # Null /\ veh.frWheelJoint # Null
             /\ veh.blWheelJoint # Null /\ veh.brWheelJoint # Null
             /\ veh.flWheelSteeringJoint # Null /\ veh.frWheelSteeringJoint # Null
             /\ fatalDiag' = NoError)]_vars

\* a resolution has failed on a steering joint after the four wheel joints
\* were found, under a configuration that provides front_torque
C19_Witness ==
    /\ terminated /\ fatalDiag # NoError
    /\ veh.brWheelJoint = "rear_right_wheel_joint"
    /\ HasElement(sdf, "front_torque")
    /\ jointState["rear_right_wheel_joint"].high = 10

====
